---- MODULE Spec2Model ----
(***************************************************************************)
(* Paged I2C EEPROM driver with a CRC record after every transfer.         *)
(*                                                                         *)
(* The model follows the newer revision of the driver (the translation     *)
(* unit that takes an EEPROM_Config).  The older revision kept beside it   *)
(* (EEPROM.h, lines 34-188) differs in EEPROM_Init, which always returns   *)
(* Sucess, in the public page count, which leaves out the page of the CRC  *)
(* record, and in reads, which call no delay.                              *)
(*                                                                         *)
(* uint16_t is modelled Uint16Bits wide: page numbers, sizes, page counts  *)
(* and device addresses are all taken modulo Mod == 2^Uint16Bits, exactly  *)
(* where the code truncates to uint16_t.  Bytes are 8 bits and the CRC is  *)
(* the 32-bit CRC of the STM32F1 CRC unit, kept as its four bytes.         *)
(*                                                                         *)
(* Five specifications: Spec (accepted configurations, transport always    *)
(* HAL_OK, the CRC record may be altered in the device), FaultSpec (any    *)
(* configuration, one transport operation of a call may fail), CountSpec   *)
(* (the page arithmetic for every size and page size), ConfigSpec          *)
(* (configurations accepted and refused in any order between transfers)    *)
(* and PlanSpec (a caller laying two buffers out one after the other with  *)
(* EEPROM_getBuffersPagesCount).                                           *)
(***************************************************************************)
EXTENDS Integers, Sequences, FiniteSets, TLC

\* ------------------------------------------------------------------ bounds
Uint16Bits == 5
MaxCalls == 3

Mod == 2 ^ Uint16Bits
Addr == 0 .. (Mod - 1)
Byte == 0 .. 255

\* ------------------------------------------------------- program constants
sTimeout == 50
sWriteDelay == 5
DefaultDeviceAddress == 160
DefaultPageSize == 64
CrcSize == 4

NULL == "nullptr"

EEPROM_Status_Sucess == "Sucess"
EEPROM_Status_NotInitialized == "NotInitialized"
EEPROM_Status_Busy == "Busy"
EEPROM_Status_Timeout == "Timeout"
EEPROM_Status_InvalidCRC == "InvalidCRC"
EEPROM_Status_Error == "Error"

HAL_OK == "HAL_OK"
HAL_ERROR == "HAL_ERROR"
HAL_BUSY == "HAL_BUSY"
HAL_TIMEOUT == "HAL_TIMEOUT"

\* ------------------------------------------------------------------ inputs
\* Page sizes offered to EEPROM_Init.  Every page size and page number of the
\* model is below 2^15, so page * pageSize never overflows the int it is
\* computed in.
PageSizes == {0, 4, 8}
I2CHandles == {NULL, "hi2c1"}
CRCHandles == {NULL, "hcrc"}
DeviceAddresses == {DefaultDeviceAddress}
Configs == [hI2C : I2CHandles, hCRC : CRCHandles,
            deviceAddress : DeviceAddresses, pageSize : PageSizes]
\* The configurations init accepts.
WorkingConfigs == {c \in Configs : c.hI2C # NULL /\ c.hCRC # NULL /\ c.pageSize # 0}
\* Two configurations that differ in all four fields, and each of them
\* with one field that init refuses.
OtherDeviceAddress == DefaultDeviceAddress + 2
TwoConfigs ==
    {[hI2C |-> "hi2c1", hCRC |-> "hcrc", deviceAddress |-> DefaultDeviceAddress, pageSize |-> 4],
     [hI2C |-> "hi2c2", hCRC |-> "hcrc2", deviceAddress |-> OtherDeviceAddress, pageSize |-> 8]}
RefusedConfigs ==
    UNION {{[c EXCEPT !.hI2C = NULL], [c EXCEPT !.hCRC = NULL], [c EXCEPT !.pageSize = 0]} : c \in TwoConfigs}
\* Lengths up to the largest a uint16_t holds.
AnySizes == {0, 3, 12, Mod - 1}
\* The caller that lays two buffers out one after the other: page sizes
\* below and from the size of the CRC record, first pages and lengths.
PlanConfigs ==
    [hI2C : I2CHandles \ {NULL}, hCRC : CRCHandles \ {NULL}, deviceAddress : DeviceAddresses, pageSize : {2, 4, 8}]
PlanPages == {0, 1}
PlanSizes == {0, 3, 4, 8}
\* Every page size, for the page arithmetic alone.
CountConfigs == [hI2C : {"hi2c1"}, hCRC : {"hcrc"},
                 deviceAddress : DeviceAddresses, pageSize : 0 .. (Mod - 1)]

Pages == {1, Mod - 1}
Sizes == {0, 3, 8, 12, Mod - 4}

\* Caller buffers: a ramp starting at a seed, so that every byte of a buffer
\* differs from its neighbours and from the erased device.
Seeds == {1, 77}
MakeBuffer(seed, size) == [i \in 1 .. size |-> (seed + 3 * i) % 251]
\* Content of the caller's buffer before a read fills it.
Canary == 204
Erased == 2 ^ 8 - 1

\* Outcome of the n-th transport operation of a call (n from 1): the
\* operation numbered failAt reports failWith, every other one HAL_OK.
Failures == {HAL_ERROR, HAL_BUSY, HAL_TIMEOUT}
MaxFailAt == 3
NoFailure == [failAt |-> 0, failWith |-> HAL_OK]
Oracles == {NoFailure} \cup [failAt : 1 .. MaxFailAt, failWith : Failures]

\* ---------------------------------------------------- integer conversions
ToUint16(x) == x % Mod
ToInt16(x) == IF x % Mod >= Mod \div 2 THEN (x % Mod) - Mod ELSE x % Mod

\* ------------------------------------------------------------- CRC engine
\* The CRC unit of the STM32F1: polynomial 0x04C11DB7, data register reset
\* to 0xFFFFFFFF, one 32-bit word per write, most significant bit first, no
\* reflection and no final XOR.
\*
\* A 32-bit value is kept as its four bytes in memory order (little endian:
\* byte 1 is the least significant), which is how the driver stores it
\* through reinterpret_cast<uint8_t*>(&crc) and how calcCRC reads words out
\* of the byte buffer.

\* The shift register bit by bit, on the set of the positions of the 1 bits.
Poly == {26, 23, 22, 16, 12, 11, 10, 8, 7, 5, 4, 2, 1, 0}
XorBits(a, b) == (a \ b) \cup (b \ a)
ShiftStep(x) ==
    IF 31 \in x THEN XorBits({b + 1 : b \in x \ {31}}, Poly)
    ELSE {b + 1 : b \in x}
Shift2(x) == ShiftStep(ShiftStep(x))
Shift4(x) == Shift2(Shift2(x))
Shift8(x) == Shift4(Shift4(x))

\* Bits of byte b placed as byte k (0 = least significant) of a word.
ByteBits(b, k) == {8 * k + j : j \in {i \in 0 .. 7 : (b \div (2 ^ i)) % 2 = 1}}
ByteOf(v, k) ==
    LET bit(i) == IF (8 * k + i) \in v THEN 2 ^ i ELSE 0
    IN  bit(0) + bit(1) + bit(2) + bit(3) + bit(4) + bit(5) + bit(6) + bit(7)

\* The register after eight shifts, for each value of its top byte (the
\* lower three bytes being 0).
CrcTable == [t \in Byte |-> [k \in 1 .. 4 |-> ByteOf(Shift8(ByteBits(t, 3)), k - 1)]]

\* Exclusive or of two bytes, tabulated by halves and then by bytes.
Xor4 == [a \in 0 .. 15 |-> [b \in 0 .. 15 |->
            ((a + b) % 2)
            + 2 * (((a \div 2) + (b \div 2)) % 2)
            + 4 * (((a \div 4) + (b \div 4)) % 2)
            + 8 * (((a \div 8) + (b \div 8)) % 2)]]
XorTable == [a \in Byte |-> [b \in Byte |->
               16 * Xor4[a \div 16][b \div 16] + Xor4[a % 16][b % 16]]]
Xor8(a, b) == XorTable[a][b]

\* The register crc shifted up by one byte, t being the table entry of the
\* byte that left it.
CrcShift(crc, t) ==
    <<t[1], Xor8(crc[1], t[2]), Xor8(crc[2], t[3]), Xor8(crc[3], t[4])>>

\* The register crc after the byte d was shifted in at the top.
CrcByte(crc, d) == CrcShift(crc, CrcTable[Xor8(crc[4], d)])

\* The register after the w-th word (from 0) of the buffer was written to it.
CrcWord(crc, buffer, w) ==
    CrcByte(CrcByte(CrcByte(CrcByte(crc, buffer[4 * w + 4]),
                            buffer[4 * w + 3]),
                    buffer[4 * w + 2]),
            buffer[4 * w + 1])

\* The register after words w .. n-1 were written to it.  (The register
\* after one word is bound by a quantifier, so that the next word is fed to
\* a value and not to a pending computation.)
RECURSIVE CrcFeed(_, _, _, _)
CrcFeed(crc, buffer, w, n) ==
    IF w >= n THEN crc
    ELSE CHOOSE r \in {CrcFeed(next, buffer, w + 1, n) :
                          next \in {CrcWord(crc, buffer, w)}} : TRUE

CrcReset == <<255, 255, 255, 255>>

HAL_CRC_Calculate(buffer, nWords) == CrcFeed(CrcReset, buffer, 0, nWords)

\* ------------------------------------------------------------------ state
\* mConfig   the driver's configuration (sInstance.mConfig)
\* mem       the device's memory, one byte per device address
\* last      the last call: its arguments, the status it returned, the
\*           caller's buffer when it returned, the bus operations and delays
\*           it issued, and the configuration it ran under
\* stored    the last successful checksum-enabled write whose bytes and CRC
\*           record nothing has written to since (valid), and whether the
\*           CRC record was altered afterwards (altered)
\* configured  whether some EEPROM_Init has returned Sucess
\* calls     number of calls made
\* kept      the successful write before the last one, when the last one
\*           was placed at its page plus the page count the caller had
\*           just asked EEPROM_getBuffersPagesCount for
\* bus       pending: the last bus operation was a page write and no delay
\*           has been called since; early: the last call issued its first
\*           bus operation while one was pending
\* setup     accepted: the configuration of the last EEPROM_Init that
\*           returned Sucess; refused: the configurations EEPROM_Init has
\*           refused since
VARIABLES mConfig, mem, last, stored, configured, calls, kept, bus, setup

vars == <<mConfig, mem, last, stored, configured, calls, kept, bus, setup>>

DefaultConfig == [hI2C |-> NULL, hCRC |-> NULL,
                  deviceAddress |-> DefaultDeviceAddress,
                  pageSize |-> DefaultPageSize]

Call(op, page, size, bytes, st, b, log, cfg, arg, ret) ==
    [op |-> op, page |-> page, size |-> size, bytes |-> bytes, st |-> st,
     buf |-> b, log |-> log, cfg |-> cfg, arg |-> arg, ret |-> ret]

NoCall == Call("none", 0, 0, <<>>, "none", <<>>, <<>>, DefaultConfig,
               DefaultConfig, 0)
NoStored == [valid |-> FALSE, altered |-> FALSE, page |-> 0, size |-> 0,
             bytes |-> <<>>, crc |-> 0, cfg |-> DefaultConfig]

Init ==
    /\ mConfig = DefaultConfig
    /\ mem = [a \in Addr |-> Erased]
    /\ last = NoCall
    /\ stored = NoStored
    /\ configured = FALSE
    /\ calls = 0
    /\ kept = NoStored
    /\ bus = [pending |-> FALSE, early |-> FALSE]
    /\ setup = [accepted |-> DefaultConfig, refused |-> {}]

\* --------------------------------------------------------- driver: config
\* (variant: the page size is not looked at)
init_AnyPageSize(config) ==
    IF config.hI2C = NULL \/ config.hCRC = NULL
    THEN [st |-> EEPROM_Status_NotInitialized, cfg |-> mConfig]
    ELSE [st |-> EEPROM_Status_Sucess, cfg |-> config]

\* (variant: the configuration is stored before it is looked at)
init_StoresFirst(config) ==
    IF config.hI2C = NULL \/ config.hCRC = NULL \/ config.pageSize = 0
    THEN [st |-> EEPROM_Status_NotInitialized, cfg |-> config]
    ELSE [st |-> EEPROM_Status_Sucess, cfg |-> config]

init(config) ==
    IF config.hI2C = NULL \/ config.hCRC = NULL \/ config.pageSize = 0
    THEN [st |-> EEPROM_Status_NotInitialized, cfg |-> mConfig]
    ELSE [st |-> EEPROM_Status_Sucess, cfg |-> config]

\* (variant: no guard)
isInitialized_Always == TRUE

isInitialized == mConfig.hI2C # NULL /\ mConfig.hCRC # NULL

\* (variant: busy falls through to the default)
decodeStatusHAL_NoBusy(st) ==
    CASE st = HAL_OK -> EEPROM_Status_Sucess
      [] st = HAL_TIMEOUT -> EEPROM_Status_Timeout
      [] OTHER -> EEPROM_Status_Error

decodeStatusHAL(st) ==
    CASE st = HAL_OK -> EEPROM_Status_Sucess
      [] st = HAL_BUSY -> EEPROM_Status_Busy
      [] st = HAL_TIMEOUT -> EEPROM_Status_Timeout
      [] OTHER -> EEPROM_Status_Error

\* ------------------------------------------------------- page arithmetic
\* (variant: the span without the extra page)
getCountOfPagesFor_Tight(bufferSize) ==
    ToUint16(bufferSize \div mConfig.pageSize)

\* (variant: the number of pages the buffer occupies)
getCountOfPagesFor_RoundedUp(bufferSize) ==
    ToUint16((bufferSize + mConfig.pageSize - 1) \div mConfig.pageSize)

getCountOfPagesFor(bufferSize) ==
    ToUint16(bufferSize \div mConfig.pageSize + 1)

getPageMemoryAddress(page) == ToUint16(page * mConfig.pageSize)

calcCRC(buffer, bufferSize) == HAL_CRC_Calculate(buffer, bufferSize \div 4)

\* -------------------------------------------------------------- transport
\* A call in progress: the device, the caller's buffer, the bus operations
\* and delays issued so far, and the number of transport operations issued.
Ctx(m, b) == [mem |-> m, buf |-> b, log |-> <<>>, ops |-> 0]

Outcome(oracle, n) == IF n = oracle.failAt THEN oracle.failWith ELSE HAL_OK

LogEntry(kind, memAddress, size, off, st, ms) ==
    [kind |-> kind, hI2C |-> mConfig.hI2C,
     dev |-> mConfig.deviceAddress, addr |-> memAddress,
     size |-> size, off |-> off, st |-> st, ms |-> ms, timeout |-> sTimeout]

\* Device memory after `bytes` were stored from memAddress on; the device's
\* address counter is as wide as the memory address and rolls over with it.
RECURSIVE Store(_, _, _)
Store(m, memAddress, bytes) ==
    IF bytes = <<>> THEN m
    ELSE Store([m EXCEPT ![ToUint16(memAddress)] = Head(bytes)],
               memAddress + 1, Tail(bytes))

Fetch(m, memAddress, size) ==
    [j \in 1 .. size |-> m[ToUint16(memAddress + j - 1)]]

\* HAL_I2C_Mem_Write of `bytes`, which the caller took from offset `off` of
\* its buffer (off = -1: the bytes of the CRC value).  An operation that
\* does not report HAL_OK transfers nothing.
HAL_I2C_Mem_Write(c, oracle, memAddress, bytes, off) ==
    LET st == Outcome(oracle, c.ops + 1)
    IN  [st |-> st,
         c |-> [c EXCEPT
                  !.ops = c.ops + 1,
                  !.log = Append(c.log, LogEntry("MemWrite", memAddress,
                                                 Len(bytes), off, st, 0)),
                  !.mem = IF st = HAL_OK THEN Store(c.mem, memAddress, bytes)
                          ELSE c.mem]]

\* HAL_I2C_Mem_Read of `size` bytes; `data` is what arrived.
HAL_I2C_Mem_Read(c, oracle, memAddress, size, off) ==
    LET st == Outcome(oracle, c.ops + 1)
    IN  [st |-> st,
         c |-> [c EXCEPT
                  !.ops = c.ops + 1,
                  !.log = Append(c.log, LogEntry("MemRead", memAddress,
                                                 size, off, st, 0))],
         data |-> IF st = HAL_OK THEN Fetch(c.mem, memAddress, size) ELSE <<>>]

HAL_Delay(c, ms) ==
    [c EXCEPT !.log = Append(c.log, LogEntry("Delay", 0, 0, 0, HAL_OK, ms))]

\* The caller's buffer with `data` copied in from offset off.
RECURSIVE Fill(_, _, _)
Fill(b, off, data) ==
    IF data = <<>> THEN b
    ELSE Fill([b EXCEPT ![off + 1] = Head(data)], off + 1, Tail(data))

\* ---------------------------------------------------------- transfer loop
\* (A value used more than once is passed as an operator argument: TLC
\* computes an argument once and a LET definition at every use.)

\* What a handler returns: the status and the call's effects.
Return(st, c) == [st |-> st, c |-> c]

\* (variant: what was read is dropped)
ReadInto_Dropped(r, off) == Return(r.st, r.c)

\* A chunk read into the caller's buffer at offset off.
ReadInto(r, off) ==
    Return(r.st, [r.c EXCEPT !.buf = Fill(r.c.buf, off, r.data)])

\* One call of inputOutputFunction io on the chunk at ptr = buffer + off.
Chunk(c, oracle, io, memoryAddress, off, countOfBytesToProcess) ==
    IF io = "Write"
    THEN HAL_I2C_Mem_Write(c, oracle, memoryAddress,
                           SubSeq(c.buf, off + 1, off + countOfBytesToProcess),
                           off)
    ELSE ReadInto(HAL_I2C_Mem_Read(c, oracle, memoryAddress,
                                   countOfBytesToProcess, off), off)

RECURSIVE Loop(_, _, _, _, _, _, _)
\* (variant: the chunk's status is ignored)
LoopAdvance_NoAbort(r, oracle, io, memoryAddress, off, bytesRemain, countOfBytesToProcess, delay) ==
    Loop(HAL_Delay(r.c, delay), oracle, io,
         ToUint16(memoryAddress + mConfig.pageSize),
         off + mConfig.pageSize,
         bytesRemain - countOfBytesToProcess, delay)

\* The rest of one iteration, r being the chunk's outcome.
LoopAdvance(r, oracle, io, memoryAddress, off, bytesRemain, countOfBytesToProcess, delay) ==
    IF r.st # HAL_OK THEN Return(r.st, r.c)
    ELSE Loop(HAL_Delay(r.c, delay), oracle, io,
              ToUint16(memoryAddress + mConfig.pageSize),
              off + mConfig.pageSize,
              bytesRemain - countOfBytesToProcess, delay)

LoopChunk(c, oracle, io, memoryAddress, off, bytesRemain, countOfBytesToProcess, delay) ==
    LoopAdvance(Chunk(c, oracle, io, memoryAddress, off,
                      countOfBytesToProcess),
                oracle, io, memoryAddress, off, bytesRemain,
                countOfBytesToProcess, delay)

Loop(c, oracle, io, memoryAddress, off, bytesRemain, delay) ==
    IF ~(bytesRemain > 0) THEN Return(HAL_OK, c)
    ELSE LoopChunk(c, oracle, io, memoryAddress, off, bytesRemain,
                   IF bytesRemain > mConfig.pageSize THEN mConfig.pageSize
                   ELSE bytesRemain,
                   delay)

\* (variant: the transfer starts at the page number, not at its address)
iterateOverPages_PageAsAddress(c, oracle, page, size, io, delay) ==
    Loop(c, oracle, io, ToUint16(ToInt16(page)), 0, ToUint16(size), delay)

iterateOverPages(c, oracle, page, size, io, delay) ==
    Loop(c, oracle, io, getPageMemoryAddress(ToUint16(ToInt16(page))), 0,
         ToUint16(size), delay)

writeBuffer(c, oracle, page, size) ==
    iterateOverPages(c, oracle, page, size, "Write", sWriteDelay)

readBuffer(c, oracle, page, size) ==
    iterateOverPages(c, oracle, page, size, "Read", 0)

writeCRC(c, oracle, page, bufferSize) ==
    HAL_I2C_Mem_Write(c, oracle, getPageMemoryAddress(page),
                      calcCRC(c.buf, bufferSize), -1)

\* The value read into `crc` stays 0 (expectedCRC{}) when the read fails.
CrcRead(r) ==
    [st |-> r.st, c |-> r.c,
     crc |-> IF r.st = HAL_OK THEN r.data ELSE <<0, 0, 0, 0>>]

readCRC(c, oracle, page) ==
    CrcRead(HAL_I2C_Mem_Read(c, oracle, getPageMemoryAddress(page),
                             CrcSize, -1))

\* ------------------------------------------------------ driver: transfers
\* RETURN_IF_ERROR(writeCRC(...)); return Sucess
writeAfterCRC(k) ==
    IF decodeStatusHAL(k.st) # EEPROM_Status_Sucess
    THEN Return(decodeStatusHAL(k.st), k.c)
    ELSE Return(EEPROM_Status_Sucess, k.c)

\* RETURN_IF_ERROR(writeBuffer(...)) and what follows it, d being
\* writeBuffer's outcome.
writeAfterBuffer(d, oracle, page, size, useCRC) ==
    IF decodeStatusHAL(d.st) # EEPROM_Status_Sucess
    THEN Return(decodeStatusHAL(d.st), d.c)
    ELSE IF ~useCRC THEN Return(EEPROM_Status_Sucess, d.c)
    ELSE writeAfterCRC(writeCRC(d.c, oracle,
                                ToUint16(page + getCountOfPagesFor(size)),
                                size))

write(c, oracle, page, size, useCRC) ==
    IF ~isInitialized THEN Return(EEPROM_Status_NotInitialized, c)
    ELSE writeAfterBuffer(writeBuffer(c, oracle, page, size), oracle, page,
                          size, useCRC)

\* (variant: the CRC read is not compared)
readAfterCRC_Unchecked(k, size) ==
    IF decodeStatusHAL(k.st) # EEPROM_Status_Sucess
    THEN Return(decodeStatusHAL(k.st), k.c)
    ELSE Return(EEPROM_Status_Sucess, k.c)

\* RETURN_IF_ERROR(readCRC(...)) and the comparison, k being readCRC's
\* outcome with expectedCRC in k.crc.
readAfterCRC(k, size) ==
    IF decodeStatusHAL(k.st) # EEPROM_Status_Sucess
    THEN Return(decodeStatusHAL(k.st), k.c)
    ELSE IF k.crc # calcCRC(k.c.buf, size)
    THEN Return(EEPROM_Status_InvalidCRC, k.c)
    ELSE Return(EEPROM_Status_Sucess, k.c)

\* (variant: the CRC is read and compared whatever readBuffer returned)
readAfterBuffer_CrcAnyway(d, oracle, page, size, useCRC) ==
    readAfterCRC(readCRC(d.c, oracle, ToUint16(ToInt16(page) + getCountOfPagesFor(size))), size)

readAfterBuffer(d, oracle, page, size, useCRC) ==
    IF decodeStatusHAL(d.st) # EEPROM_Status_Sucess
    THEN Return(decodeStatusHAL(d.st), d.c)
    ELSE IF ~useCRC THEN Return(EEPROM_Status_Sucess, d.c)
    ELSE readAfterCRC(readCRC(d.c, oracle,
                              ToUint16(ToInt16(page)
                                       + getCountOfPagesFor(size))),
                      size)

read(c, oracle, page, size, useCRC) ==
    IF ~isInitialized THEN Return(EEPROM_Status_NotInitialized, c)
    ELSE readAfterBuffer(readBuffer(c, oracle, page, size), oracle, page,
                         size, useCRC)

\* ------------------------------------------------------------- public API
\* The caller has just asked for the page count of the stored buffer and
\* now writes at the stored buffer's page plus that count.
PlacedAfterStored(page) ==
    /\ last.op = "PagesCount" /\ last.cfg = mConfig
    /\ stored.valid /\ ~stored.altered /\ stored.cfg = mConfig
    /\ last.size = stored.size
    /\ page = ToUint16(stored.page + last.ret)

\* The bus after a call that issued `log`: a call that stays off the bus
\* leaves it as it was; any other starts with a bus operation (Loop,
\* writeCRC and readCRC call no delay before their first one) and leaves a
\* page write pending when it ends with one that the device accepted.
BusAfter(log) ==
    IF log = <<>> THEN [bus EXCEPT !.early = FALSE]
    ELSE [pending |-> log[Len(log)].kind = "MemWrite"
                      /\ log[Len(log)].st = HAL_OK,
          early |-> bus.pending]

EEPROM_makeDefaultConfig(hI2C, hCRC) ==
    [hI2C |-> hI2C, hCRC |-> hCRC, deviceAddress |-> DefaultDeviceAddress,
     pageSize |-> DefaultPageSize]

EEPROM_Init(config) ==
    /\ \E r \in {init(config)} :
           /\ mConfig' = r.cfg
           /\ last' = Call("Init", 0, 0, <<>>, r.st, <<>>, <<>>, mConfig,
                           config, 0)
           /\ configured' = (configured \/ r.st = EEPROM_Status_Sucess)
           /\ setup' = IF r.st = EEPROM_Status_Sucess
                       THEN [accepted |-> config, refused |-> {}]
                       ELSE [setup EXCEPT !.refused = @ \cup {config}]
    /\ calls' = calls + 1
    /\ UNCHANGED <<mem, stored, kept, bus>>

EEPROM_Write(page, bytes, size, oracle) ==
    /\ \E r \in {write(Ctx(mem, bytes), oracle, page, size, TRUE)} :
           /\ mem' = r.c.mem
           /\ last' = Call("Write", page, size, bytes, r.st, r.c.buf,
                           r.c.log, mConfig, mConfig, 0)
           /\ stored' =
                IF r.st = EEPROM_Status_Sucess
                THEN [valid |-> TRUE, altered |-> FALSE, page |-> page,
                      size |-> size, bytes |-> bytes,
                      crc |-> r.c.log[Len(r.c.log)].addr, cfg |-> mConfig]
                ELSE IF r.c.log = <<>> THEN stored ELSE NoStored
           /\ kept' = IF r.st = EEPROM_Status_Sucess /\ PlacedAfterStored(page)
                      THEN stored
                      ELSE IF r.c.log = <<>> THEN kept ELSE NoStored
           /\ bus' = BusAfter(r.c.log)
    /\ calls' = calls + 1
    /\ UNCHANGED <<mConfig, configured, setup>>

EEPROM_Read(page, bytes, size, oracle) ==
    /\ \E r \in {read(Ctx(mem, bytes), oracle, page, size, TRUE)} :
           /\ last' = Call("Read", page, size, bytes, r.st, r.c.buf,
                           r.c.log, mConfig, mConfig, 0)
           /\ bus' = BusAfter(r.c.log)
    /\ calls' = calls + 1
    /\ UNCHANGED <<mConfig, mem, stored, configured, kept, setup>>

\* (variant: the count without the page of the CRC record, as the older
\* revision's EEPROM_getBuffersPageCount returns it)
EEPROM_getBuffersPagesCount_DataOnly(bufferSize) ==
    /\ last' = Call("PagesCount", 0, bufferSize, <<>>, "none", <<>>, <<>>,
                    mConfig, mConfig, getCountOfPagesFor(bufferSize))
    /\ calls' = calls + 1
    /\ UNCHANGED <<mConfig, mem, stored, configured, kept, bus, setup>>

EEPROM_getBuffersPagesCount(bufferSize) ==
    /\ last' = Call("PagesCount", 0, bufferSize, <<>>, "none", <<>>, <<>>,
                    mConfig, mConfig,
                    ToUint16(getCountOfPagesFor(bufferSize) + 1))
    /\ calls' = calls + 1
    /\ UNCHANGED <<mConfig, mem, stored, configured, kept, bus, setup>>

\* ------------------------------------------------------------ environment
\* The device loses the CRC record of the last successful write: its four
\* bytes change to another value.  Nothing else in the device changes, and
\* the results of the call before it are no longer those of the last call.
Corrupt(bytes) ==
    /\ stored.valid /\ ~stored.altered
    /\ bytes # Fetch(mem, stored.crc, CrcSize)
    /\ mem' = Store(mem, stored.crc, bytes)
    /\ stored' = [stored EXCEPT !.altered = TRUE]
    /\ last' = [NoCall EXCEPT !.op = "Corrupt"]
    /\ UNCHANGED <<mConfig, configured, calls, kept, bus, setup>>

\* CRC records that check out against a buffer of Seeds whose first word
\* they have replaced: v with calcCRC(v \o rest) = v, for the buffers of
\* Mod - 4 bytes at Uint16Bits = 5 (the read recomputes the CRC of what it
\* finds, so a value that is not self-checking is rejected there).
SelfChecking ==
    {<<118, 130, 153, 57>>, <<182, 181, 69, 184>>}

\* Values a corrupted CRC record can take: one bit of it flipped, erased,
\* or a self-checking record.
Corruptions ==
    LET cur == Fetch(mem, stored.crc, CrcSize)
    IN  {[cur EXCEPT ![1] = Xor8(cur[1], 1)],
         [k \in 1 .. CrcSize |-> Erased]} \cup SelfChecking

\* The driver is given configurations it accepts and the transport always
\* reports HAL_OK.
Next ==
    \/ calls < MaxCalls /\ \E config \in WorkingConfigs : EEPROM_Init(config)
    \/ calls < MaxCalls
         /\ \E page \in Pages, size \in Sizes, seed \in Seeds :
               EEPROM_Write(page, MakeBuffer(seed, size), size, NoFailure)
    \/ calls < MaxCalls
         /\ \E page \in Pages, size \in Sizes :
               EEPROM_Read(page, [i \in 1 .. size |-> Canary], size,
                           NoFailure)
    \/ \E bytes \in Corruptions : Corrupt(bytes)

Spec == Init /\ [][Next]_vars

\* The driver is given any configuration, and one transport operation of a
\* call may report a failure.
FaultNext ==
    /\ calls < MaxCalls - 1
    /\ \/ \E config \in Configs : EEPROM_Init(config)
       \/ \E page \in Pages, size \in Sizes, seed \in Seeds,
             oracle \in Oracles :
             EEPROM_Write(page, MakeBuffer(seed, size), size, oracle)
       \/ \E page \in Pages, size \in Sizes, oracle \in Oracles :
             EEPROM_Read(page, [i \in 1 .. size |-> Canary], size, oracle)

FaultSpec == Init /\ [][FaultNext]_vars

\* The page count for every buffer size under every page size.
CountNext ==
    /\ calls < MaxCalls - 1
    /\ \/ \E config \in CountConfigs : EEPROM_Init(config)
       \/ \E bufferSize \in 0 .. (Mod - 1) :
             EEPROM_getBuffersPagesCount(bufferSize)

CountSpec == Init /\ [][CountNext]_vars

\* Configurations are accepted and refused in any order between transfers
\* of any length; the transport always reports HAL_OK.
ConfigNext ==
    \/ calls < MaxCalls /\ \E config \in TwoConfigs \cup RefusedConfigs : EEPROM_Init(config)
    \/ calls < MaxCalls /\ \E size \in AnySizes :
          EEPROM_Write(1, MakeBuffer(1, size), size, NoFailure)
    \/ calls < MaxCalls /\ \E size \in AnySizes :
          EEPROM_Read(1, [i \in 1 .. size |-> Canary], size, NoFailure)

ConfigSpec == Init /\ [][ConfigNext]_vars

\* A caller plans addresses: it configures the driver, writes a first
\* buffer, asks EEPROM_getBuffersPagesCount how many pages that buffer
\* takes, writes a second buffer that many pages further on and reads the
\* first buffer back.  The transport always reports HAL_OK.
PlanNext ==
    \/ /\ calls < MaxCalls + 2 /\ ~configured
       /\ \E config \in PlanConfigs : EEPROM_Init(config)
    \/ /\ calls < MaxCalls + 2 /\ configured /\ last.op = "Init"
       /\ \E page \in PlanPages, size \in PlanSizes :
             EEPROM_Write(page, MakeBuffer(1, size), size, NoFailure)
    \/ /\ calls < MaxCalls + 2
       /\ last.op = "Write" /\ stored.valid /\ ~kept.valid
       /\ EEPROM_getBuffersPagesCount(stored.size)
    \/ /\ calls < MaxCalls + 2 /\ last.op = "PagesCount"
       /\ \E size \in PlanSizes :
             EEPROM_Write(ToUint16(stored.page + last.ret),
                          MakeBuffer(77, size), size, NoFailure)
    \/ /\ calls < MaxCalls + 2 /\ last.op = "Write" /\ kept.valid
       /\ EEPROM_Read(kept.page, [i \in 1 .. kept.size |-> Canary],
                      kept.size, NoFailure)

PlanSpec == Init /\ [][PlanNext]_vars

\* ================================================================ claims
TransportOps(log) == SelectSeq(log, LAMBDA e : e.kind # "Delay")
DelayCalls(log) == SelectSeq(log, LAMBDA e : e.kind = "Delay")
Min(a, b) == IF a < b THEN a ELSE b
IsTransfer == last.op \in {"Read", "Write"}
Succeeded == last.st = EEPROM_Status_Sucess

\* The last call is a read of the page and length of the last successful
\* write, under the same configuration, nothing having written in between.
ReadsBackStored ==
    /\ last.op = "Read"
    /\ stored.valid
    /\ stored.page = last.page
    /\ stored.size = last.size
    /\ stored.cfg = last.cfg

\* The data pages, the page left free after them and the CRC record all lie
\* below the end of the address space.
Fits(page, size, pageSize) ==
    (page + size \div pageSize + 1) * pageSize + CrcSize <= Mod

\* A length the round trip is stated for.
WholeWords(size, pageSize) == size % 4 = 0 /\ size >= pageSize

C3_UninitializedGuard ==
    (IsTransfer /\ ~configured)
    => (last.st = EEPROM_Status_NotInitialized /\ last.log = <<>>)

C3_Witness ==
    /\ last.op = "Write" /\ ~configured /\ calls > 1
    /\ last.size > 0
    /\ last.st = EEPROM_Status_NotInitialized /\ last.log = <<>>

\* C4: EEPROM_Init returns NotInitialized exactly when a handle is absent or
\* the page size is 0, and Sucess for every other argument.
C4_ConfigureStatus ==
    last.op = "Init"
    => last.st = (IF last.arg.hI2C = NULL \/ last.arg.hCRC = NULL
                     \/ last.arg.pageSize = 0
                  THEN EEPROM_Status_NotInitialized
                  ELSE EEPROM_Status_Sucess)

C4_Witness ==
    /\ last.op = "Init"
    /\ last.arg.hI2C # NULL /\ last.arg.hCRC # NULL /\ last.arg.pageSize = 0
    /\ last.st = EEPROM_Status_NotInitialized

\* C5 (as stated): the public page count of a buffer of s bytes under page
\* size p > 0 is floor(s/p) + 1.
C5_PublicCountIsSpan ==
    (last.op = "PagesCount" /\ last.cfg.pageSize > 0)
    => last.ret = last.size \div last.cfg.pageSize + 1

\* C5 (amended): the public page count is floor(s/p) + 2, the span
\* floor(s/p) + 1 plus the page of the CRC record, as a 16-bit value.
C5_PublicCountIncludesCrcPage ==
    (last.op = "PagesCount" /\ last.cfg.pageSize > 0)
    => last.ret = (last.size \div last.cfg.pageSize + 2) % Mod

C5_Witness ==
    /\ last.op = "PagesCount" /\ configured
    /\ last.size > 0 /\ last.size % last.cfg.pageSize = 0
    /\ last.ret = last.size \div last.cfg.pageSize + 2

\* C6: when the transport reports a timeout on a data chunk of a write, the
\* write returns Timeout and the failing operation is the last thing the
\* call does: the transport was called once more than chunks succeeded.
C6_TimeoutStopsWrite ==
    last.op = "Write"
    => \A i \in 1 .. Len(last.log) :
          (last.log[i].kind = "MemWrite" /\ last.log[i].off >= 0
             /\ last.log[i].st = HAL_TIMEOUT)
          => /\ last.st = EEPROM_Status_Timeout
             /\ i = Len(last.log)
             /\ Len(TransportOps(last.log))
                  = Len(SelectSeq(last.log, LAMBDA e : e.kind = "MemWrite"
                                                        /\ e.st = HAL_OK)) + 1

C6_Witness ==
    /\ last.op = "Write"
    /\ last.size > 2 * last.cfg.pageSize
    /\ Len(TransportOps(last.log)) = 2
    /\ last.log[Len(last.log)].st = HAL_TIMEOUT
    /\ last.st = EEPROM_Status_Timeout

WriteDelaysPerPage ==
    (last.op = "Write" /\ Succeeded /\ last.size % last.cfg.pageSize = 0)
    => Len(DelayCalls(last.log)) = last.size \div last.cfg.pageSize

\* A successful read calls the delay not at all.
ReadNeverDelays ==
    (last.op = "Read" /\ Succeeded) => DelayCalls(last.log) = <<>>

\* C7: a successful write of n full pages of data calls the settle delay
\* exactly n times, and a successful read of n pages calls it zero times.
C7_SettleDelayCount ==
    WriteDelaysPerPage /\ ReadNeverDelays

\* The bus operations and delays of a successful checksum-enabled write of
\* `size` bytes at `page`: chunk i (from 0) of min(p, size - i*p) bytes from
\* buffer offset i*p to device address (page + i)*p, a delay after each,
\* then the four bytes of the CRC to (page + floor(size/p) + 1)*p.  With
\* `wide` the addresses are the products themselves, without it they are
\* the products as 16-bit values.
IsWriteSequence(log, page, size, pageSize, wide) ==
    LET n == (size + pageSize - 1) \div pageSize
        address(x) == IF wide THEN x ELSE x % Mod
    IN  /\ Len(log) = 2 * n + 1
        /\ \A i \in 0 .. (n - 1) :
              /\ log[2 * i + 1].kind = "MemWrite"
              /\ log[2 * i + 1].addr = address((page + i) * pageSize)
              /\ log[2 * i + 1].size = Min(pageSize, size - i * pageSize)
              /\ log[2 * i + 1].off = i * pageSize
              /\ log[2 * i + 2].kind = "Delay"
              /\ log[2 * i + 2].ms = sWriteDelay
        /\ log[2 * n + 1].kind = "MemWrite"
        /\ log[2 * n + 1].size = CrcSize
        /\ log[2 * n + 1].off = -1
        /\ log[2 * n + 1].addr
             = address((page + size \div pageSize + 1) * pageSize)

\* C8 (as stated): a successful checksum-enabled write of L > 0 bytes issues
\* that sequence, chunk i at device address (P + i)*p and the CRC at
\* (P + floor(L/p) + 1)*p.
C8_WriteSequenceWide ==
    (last.op = "Write" /\ Succeeded /\ last.size > 0)
    => IsWriteSequence(last.log, last.page, last.size, last.cfg.pageSize, TRUE)

\* C8 (amended): the same with every device address taken modulo 2^16.
C8_WriteSequence ==
    (last.op = "Write" /\ Succeeded /\ last.size > 0)
    => IsWriteSequence(last.log, last.page, last.size, last.cfg.pageSize, FALSE)

\* A write with a short last chunk, from a page whose address wraps.
C8_Witness ==
    /\ last.op = "Write" /\ Succeeded
    /\ last.size > last.cfg.pageSize /\ last.size % last.cfg.pageSize # 0
    /\ last.page * last.cfg.pageSize >= Mod
    /\ IsWriteSequence(last.log, last.page, last.size, last.cfg.pageSize, FALSE)

\* The first transport operation of the last call that did not report
\* HAL_OK (0: there is none).
FirstFailure ==
    LET ops == TransportOps(last.log)
        bad == {i \in 1 .. Len(ops) : ops[i].st # HAL_OK}
    IN  IF bad = {} THEN 0 ELSE CHOOSE i \in bad : \A j \in bad : i <= j

\* C9: a configured read or write returns Busy when its first failing
\* transport operation reports busy, Timeout when it reports a timeout and
\* Error when it reports anything else, and returns Sucess only when every
\* transport operation it issued reported success.
C9_StatusTranslation ==
    (IsTransfer /\ last.cfg.hI2C # NULL /\ last.cfg.hCRC # NULL)
    => /\ FirstFailure # 0
          => last.st = (CASE TransportOps(last.log)[FirstFailure].st = HAL_BUSY
                               -> EEPROM_Status_Busy
                          [] TransportOps(last.log)[FirstFailure].st = HAL_TIMEOUT
                               -> EEPROM_Status_Timeout
                          [] OTHER -> EEPROM_Status_Error)
       /\ Succeeded => FirstFailure = 0

\* A read whose CRC read, after two data chunks, reports busy.
C9_Witness ==
    /\ last.op = "Read"
    /\ FirstFailure = 3
    /\ TransportOps(last.log)[3].off = -1
    /\ TransportOps(last.log)[3].st = HAL_BUSY
    /\ last.st = EEPROM_Status_Busy

\* The bytes the device holds for `size` bytes from `page` on.
DeviceBytes(m, page, size, pageSize) ==
    [j \in 1 .. size |-> m[(page * pageSize + j - 1) % Mod]]

\* C10: when a read returns InvalidCRC the caller's buffer holds, as the
\* read returns, the bytes read from the device for the requested range.
C10_BufferFilledOnInvalidCRC ==
    [][(calls' = calls + 1 /\ last'.op = "Read"
        /\ last'.st = EEPROM_Status_InvalidCRC)
       => last'.buf = DeviceBytes(mem', last'.page, last'.size,
                                  last'.cfg.pageSize)]_vars

\* After a CRC mismatch the buffer is neither what the caller passed in nor
\* cleared.
C10_Witness ==
    /\ last.op = "Read" /\ last.st = EEPROM_Status_InvalidCRC
    /\ stored.valid
    /\ last.size > last.cfg.pageSize
    /\ last.buf = DeviceBytes(mem, last.page, last.size, last.cfg.pageSize)
    /\ \A j \in 1 .. last.size : last.buf[j] # last.bytes[j] /\ last.buf[j] # 0

\* A page write the device accepted at position i of the log.
PageWriteAt(log, i) == log[i].kind = "MemWrite" /\ log[i].st = HAL_OK

\* Within the last call, a delay of sWriteDelay follows every page write
\* that is not the call's last bus operation.
DelayBetweenPageWrites ==
    \A i \in 1 .. (Len(last.log) - 1) :
       PageWriteAt(last.log, i)
       => (last.log[i + 1].kind = "Delay" /\ last.log[i + 1].ms = sWriteDelay)

\* C11: over any sequence of reads and writes a settle delay is called
\* after every page write (data chunk or CRC record) before the next bus
\* operation is issued, also when that operation belongs to the next call.
C11_DelayAfterEveryPageWrite ==
    IsTransfer => (DelayBetweenPageWrites /\ ~bus.early)

\* Number of data chunks of a transfer of `size` bytes.
Chunks(size, pageSize) == (size + pageSize - 1) \div pageSize

\* Device address of the CRC record the last call wrote or read.
CrcAddress == last.log[Len(last.log)].addr

\* Device address of page number n, as a 16-bit value.
PageAddress(n, pageSize) == (n * pageSize) % Mod

\* C12 (as stated): a checksum-enabled write of L bytes at page P stores the
\* CRC record in the page right after the last page that received data, at
\* page P + (number of data chunks), exact multiples of the page size
\* included.
C12_CrcPageFollowsData ==
    (last.op = "Write" /\ Succeeded)
    => CrcAddress = PageAddress(last.page + Chunks(last.size, last.cfg.pageSize),
                                last.cfg.pageSize)

\* C12 (amended): the CRC record is stored at page P + floor(L/p) + 1,
\* which is the page right after the data when L is not a multiple of the
\* page size and one page further when it is (L = 0 included).
C12_CrcPageAfterSpan ==
    (last.op = "Write" /\ Succeeded)
    => /\ CrcAddress = PageAddress(last.page + last.size \div last.cfg.pageSize + 1,
                                   last.cfg.pageSize)
       /\ CrcAddress
            = PageAddress(last.page + Chunks(last.size, last.cfg.pageSize)
                            + (IF last.size % last.cfg.pageSize = 0 THEN 1 ELSE 0),
                          last.cfg.pageSize)

\* A write of two full pages whose CRC record leaves a page unused.
C12_Witness ==
    /\ last.op = "Write" /\ Succeeded
    /\ last.size = 2 * last.cfg.pageSize
    /\ Len(TransportOps(last.log)) = 3
    /\ last.log[3].addr = last.page * last.cfg.pageSize + last.cfg.pageSize
    /\ CrcAddress = (last.page + 3) * last.cfg.pageSize

\* Position in the log of the CRC operations and of the data chunks that
\* failed.
CrcOps(log) == {i \in 1 .. Len(log) : log[i].kind # "Delay" /\ log[i].off = -1}
FailedChunks(log) ==
    {i \in 1 .. Len(log) : log[i].kind # "Delay" /\ log[i].off >= 0
                           /\ log[i].st # HAL_OK}

\* C13: in a checksum-enabled write or read the CRC operation is issued
\* only after every data chunk has reported success and is the last bus
\* operation of the call; when a data chunk fails no CRC operation is
\* issued, and a read does not return InvalidCRC.
C13_CrcStepOrdering ==
    IsTransfer
    => /\ \A i \in CrcOps(last.log) :
             /\ i = Len(last.log)
             /\ \A j \in 1 .. (i - 1) : last.log[j].st = HAL_OK
             /\ Len(SelectSeq(SubSeq(last.log, 1, i - 1),
                              LAMBDA e : e.kind # "Delay"))
                  = Chunks(last.size, last.cfg.pageSize)
       /\ FailedChunks(last.log) # {}
             => /\ CrcOps(last.log) = {}
                /\ last.st # EEPROM_Status_InvalidCRC

\* A read of an erased device (whose CRC record would not match) with the
\* second of its data chunks failing.
C13_Witness ==
    /\ last.op = "Read"
    /\ FailedChunks(last.log) = {3}
    /\ Chunks(last.size, last.cfg.pageSize) > 2
    /\ CrcOps(last.log) = {}
    /\ last.st = EEPROM_Status_Error

\* C14: whatever EEPROM_Init calls came before, accepted or refused, with
\* any page size, every read and write of any length returns a status
\* after at most ceil(L/pageSize) + 1 transport operations.  (The loop of
\* iterateOverPages takes min(pageSize, bytesRemain) bytes off bytesRemain
\* in every round, which is at least one byte as long as the stored page
\* size is not 0.)
C14_TransfersTerminate ==
    /\ mConfig.pageSize > 0
    /\ IsTransfer
       => /\ last.st \in {EEPROM_Status_Sucess, EEPROM_Status_NotInitialized,
                          EEPROM_Status_Busy, EEPROM_Status_Timeout,
                          EEPROM_Status_InvalidCRC, EEPROM_Status_Error}
          /\ Len(TransportOps(last.log))
               <= Chunks(last.size, last.cfg.pageSize) + 1

\* A write of the largest length after a configuration with page size 0
\* was refused, using every one of the operations allowed.
C14_Witness ==
    /\ last.op = "Write" /\ configured
    /\ \E c \in setup.refused :
          c.pageSize = 0 /\ c.hI2C # NULL /\ c.hCRC # NULL
    /\ last.size = Mod - 1
    /\ Len(TransportOps(last.log)) = Chunks(last.size, last.cfg.pageSize) + 1
    /\ Succeeded

\* The transport operations of the last call were made on the I2C handle,
\* at the device address and in the page layout of the configuration cfg.
RunsWith(cfg) ==
    LET ops == TransportOps(last.log) IN
    /\ \A i \in 1 .. Len(ops) :
          /\ ops[i].hI2C = cfg.hI2C
          /\ ops[i].dev = cfg.deviceAddress
          /\ ops[i].addr % cfg.pageSize = 0
    /\ \A i \in 1 .. (Len(ops) - 1) :
          /\ ops[i].addr = PageAddress(last.page + i - 1, cfg.pageSize)
          /\ ops[i].size = Min(cfg.pageSize, last.size - (i - 1) * cfg.pageSize)

\* C15: an EEPROM_Init that returns NotInitialized leaves the stored
\* configuration as it was, so that reads and writes after it still run
\* with the handles, device address and page size accepted before; an
\* EEPROM_Init that returns Sucess replaces all four fields together.
C15_RefusedConfigKeepsEarlier ==
    /\ (last.op = "Init" /\ last.st = EEPROM_Status_NotInitialized)
       => (mConfig = last.cfg /\ mConfig = setup.accepted)
    /\ (last.op = "Init" /\ Succeeded)
       => (mConfig = last.arg /\ setup.accepted = last.arg)
    /\ IsTransfer
       => (last.cfg = setup.accepted /\ mConfig = setup.accepted
           /\ RunsWith(setup.accepted))

\* A write that goes through after a configuration was refused that
\* differs from the accepted one in all four fields.
C15_Witness ==
    /\ last.op = "Write" /\ Succeeded /\ configured
    /\ Len(TransportOps(last.log)) > 2
    /\ \E c \in setup.refused :
          /\ c.hI2C # mConfig.hI2C /\ c.hCRC # mConfig.hCRC
          /\ c.deviceAddress # mConfig.deviceAddress
          /\ c.pageSize # mConfig.pageSize

\* The device addresses a write of size bytes at page is meant to own: its
\* data and its CRC record.
Footprint(page, size, pageSize) ==
    {(PageAddress(page, pageSize) + k) % Mod : k \in 0 .. (size - 1)}
      \cup {(PageAddress(page + size \div pageSize + 1, pageSize) + k) % Mod : k \in 0 .. (CrcSize - 1)}

\* The device addresses the page writes of a call have written.
Written(log) ==
    UNION {{(log[i].addr + k) % Mod : k \in 0 .. (log[i].size - 1)} : i \in {j \in 1 .. Len(log) : PageWriteAt(log, j)}}

\* Buffer B (stored) was written EEPROM_getBuffersPagesCount(|A|) pages
\* after buffer A (kept), and nothing of either wraps around the end of
\* the address space.
PlannedNoWrap ==
    /\ kept.valid /\ stored.valid
    /\ kept.cfg = mConfig /\ stored.cfg = mConfig
    /\ stored.page = kept.page + kept.size \div mConfig.pageSize + 2
    /\ Fits(stored.page, stored.size, mConfig.pageSize)

\* C16: when B is written EEPROM_getBuffersPagesCount(|A|) pages after A,
\* without 16-bit wrap and with the transport succeeding, the write of B
\* touches neither A's data nor A's CRC record, and a later read of A
\* returns Sucess with A's bytes.
C16_PlannedWriteKeepsFirst ==
    PlannedNoWrap
    => /\ (last.op = "Write" /\ Succeeded)
          => Written(last.log) \cap Footprint(kept.page, kept.size, mConfig.pageSize) = {}
       /\ (last.op = "Read" /\ last.page = kept.page /\ last.size = kept.size)
          => (Succeeded /\ last.buf = kept.bytes)

\* The same holds once a page is as large as the CRC record.
PlannedWriteKeepsFirstOnWidePages ==
    mConfig.pageSize >= CrcSize => C16_PlannedWriteKeepsFirst

PlannedWitness ==
    /\ PlannedNoWrap /\ mConfig.pageSize >= CrcSize
    /\ last.op = "Read" /\ last.page = kept.page /\ last.size = kept.size
    /\ kept.size > mConfig.pageSize /\ stored.size > 0
    /\ Succeeded /\ last.buf = kept.bytes

\* The device addresses that received the data bytes, and the CRC record,
\* of the write that has just returned Sucess.
DataAddresses == Written(SubSeq(last.log, 1, Len(last.log) - 1))
CrcAddresses == {(CrcAddress + k) % Mod : k \in 0 .. (CrcSize - 1)}

\* C17 (as stated): with device addresses computed modulo 2^16, for every
\* page and length of a write the four bytes of the CRC record go to
\* addresses disjoint from those that received the data of the same write.
C17_CrcDisjointFromDataAnyLength ==
    (last.op = "Write" /\ Succeeded)
    => DataAddresses \cap CrcAddresses = {}

\* C17 (amended): the same, for every page, and for the lengths whose span
\* and CRC record together are no longer than the address space.
C17_CrcDisjointFromData ==
    (last.op = "Write" /\ Succeeded
       /\ (last.size \div last.cfg.pageSize + 1) * last.cfg.pageSize + CrcSize <= Mod)
    => DataAddresses \cap CrcAddresses = {}

\* A write whose data wrap around the end of the address space and whose
\* CRC record still lies clear of them.
C17_Witness ==
    /\ last.op = "Write" /\ Succeeded
    /\ (last.size \div last.cfg.pageSize + 1) * last.cfg.pageSize + CrcSize <= Mod
    /\ {0, Mod - 1} \subseteq DataAddresses
    /\ Cardinality(DataAddresses) = last.size
    /\ DataAddresses \cap CrcAddresses = {}

====
